---------------------------- MODULE Spec2Model ----------------------------
(***************************************************************************)
(* Model of VMEncryption/main/check_util.py: the CheckUtil prechecks that  *)
(* run before disk encryption is enabled.                                  *)
(*                                                                         *)
(* Python strings are sequences of one-character strings, so that lower(), *)
(* startswith(), split(), int(), urlparse() and LooseVersion() are         *)
(* computed character by character.  A dict is a function whose domain is  *)
(* the set of keys present; dict.get is Get.                               *)
(***************************************************************************)
EXTENDS Integers, Sequences, FiniteSets, TLC

VARIABLES
    public_settings,    \* the requested configuration (dict)
    encryption_status,  \* {"os": ..., "data": ...}
    DistroPatcher,      \* [distro_info |-> <<name, version>>, kernel_version |-> ...]
    supported_os,       \* content of main/SupportedOS.json: distro -> list of entries
    host,               \* what the host answers to the probes of the checks
    call,               \* the operation that ran last
    raised,             \* the exception it propagated to its caller (NoError: none)
    ret,                \* the value it returned
    log,                \* the lines it sent to logger.log
    probes,             \* the host probes it made, in order
    pc,                 \* position in precheck_for_fatal_failures (0: not running)
    started             \* the steps precheck_for_fatal_failures started, in order

inputs == <<public_settings, encryption_status, DistroPatcher, supported_os, host>>
vars == <<public_settings, encryption_status, DistroPatcher, supported_os, host,
          call, raised, ret, log, probes, pc, started>>

-----------------------------------------------------------------------------
(* Python values *)

\* None; no string is equal to it (a string's elements are single characters)
None == <<"None">>
PyTrue == "True"
PyFalse == "False"
PyNone == "None"
Bool(b) == IF b THEN PyTrue ELSE PyFalse

\* "not x" for x a string or None
Falsy(x) == x = None \/ x = <<>>

Get(d, k) == IF k \in DOMAIN d THEN d[k] ELSE None

\* an exception: its class, its message, and the context message check_kv_url is given
NoError == [type |-> "None", msg |-> "None", ctx |-> ""]
Error(type, msg) == [type |-> type, msg |-> msg, ctx |-> ""]
Exception(msg) == Error("Exception", msg)
KvException(message, msg) == [type |-> "Exception", msg |-> msg, ctx |-> message]

\* a line given to logger.log, and a probe of the host: what, and about which string
LogLine(msg, arg) == [msg |-> msg, arg |-> arg]
Probe(what, arg) == [probe |-> what, arg |-> arg]

\* what a call does: the exception it raises (or NoError), the value it returns,
\* the lines it logs and the host probes it makes
Result(e, r, l, p) == [raised |-> e, ret |-> r, log |-> l, probes |-> p]
Returns(r, l, p) == Result(NoError, r, l, p)
Raises(e, l, p) == Result(e, PyNone, l, p)

-----------------------------------------------------------------------------
(* str methods *)

UpperCase == <<"A", "B", "C", "D", "E", "F", "G", "H", "I", "J", "K", "L", "M",
               "N", "O", "P", "Q", "R", "S", "T", "U", "V", "W", "X", "Y", "Z">>
LowerCase == <<"a", "b", "c", "d", "e", "f", "g", "h", "i", "j", "k", "l", "m",
               "n", "o", "p", "q", "r", "s", "t", "u", "v", "w", "x", "y", "z">>
Digits == <<"0", "1", "2", "3", "4", "5", "6", "7", "8", "9">>

Range(s) == {s[i] : i \in DOMAIN s}
IndexOf(c, s) == CHOOSE i \in DOMAIN s : s[i] = c

IsUpper(c) == c \in Range(UpperCase)
IsLower(c) == c \in Range(LowerCase)
IsDigit(c) == c \in Range(Digits)
IsSpace(c) == c \in {" ", "\n", "\t"}

LowerChar(c) == IF IsUpper(c) THEN LowerCase[IndexOf(c, UpperCase)] ELSE c
lower(s) == [i \in DOMAIN s |-> LowerChar(s[i])]

startswith(s, prefix) ==
    /\ Len(prefix) <= Len(s)
    /\ SubSeq(s, 1, Len(prefix)) = prefix

\* x in list
In(x, list) == \E i \in DOMAIN list : list[i] = x

\* map(f, list) for f = lower
MapLower(list) == [i \in DOMAIN list |-> lower(list[i])]

-----------------------------------------------------------------------------
(* Common.CommonVariables *)

EncryptionEncryptionOperationKey == "EncryptionOperation"
VolumeTypeKey == "VolumeType"
KeyVaultURLKey == "KeyVaultURL"
KeyEncryptionKeyURLKey == "KeyEncryptionKeyURL"
KeyEncryptionAlgorithmKey == "KeyEncryptionAlgorithm"
AADClientIDKey == "AADClientID"

EnableEncryption ==
    <<"E", "n", "a", "b", "l", "e", "E", "n", "c", "r", "y", "p", "t", "i", "o", "n">>
EnableEncryptionFormat ==
    <<"E", "n", "a", "b", "l", "e", "E", "n", "c", "r", "y", "p", "t", "i", "o", "n", "F",
      "o", "r", "m", "a", "t">>
EnableEncryptionFormatAll ==
    <<"E", "n", "a", "b", "l", "e", "E", "n", "c", "r", "y", "p", "t", "i", "o", "n", "F",
      "o", "r", "m", "a", "t", "A", "l", "l">>
QueryEncryptionStatus ==
    <<"Q", "u", "e", "r", "y", "E", "n", "c", "r", "y", "p", "t", "i", "o", "n", "S", "t",
      "a", "t", "u", "s">>
DisableEncryption ==
    <<"D", "i", "s", "a", "b", "l", "e", "E", "n", "c", "r", "y", "p", "t", "i", "o", "n">>
VolumeTypeOS == <<"O", "S">>
VolumeTypeData == <<"D", "a", "t", "a">>
VolumeTypeAll == <<"A", "l", "l">>
SupportedVolumeTypes == <<VolumeTypeOS, VolumeTypeData, VolumeTypeAll>>
EnableOperations == <<EnableEncryption, EnableEncryptionFormat, EnableEncryptionFormatAll>>

S_queryencryptionstatus ==
    <<"q", "u", "e", "r", "y", "e", "n", "c", "r", "y", "p", "t", "i", "o", "n", "s", "t",
      "a", "t", "u", "s">>
S_os == <<"o", "s">>
S_DATA == <<"D", "A", "T", "A">>
S_Disk == <<"D", "i", "s", "k">>
S_RSA_OAEP == <<"R", "S", "A", "-", "O", "A", "E", "P">>
S_RSA_OAEP_256 == <<"R", "S", "A", "-", "O", "A", "E", "P", "-", "2", "5", "6">>
S_RSA1_5 == <<"R", "S", "A", "1", "_", "5">>
S_rsa_oaep == <<"r", "s", "a", "-", "o", "a", "e", "p">>
S_AES == <<"A", "E", "S">>
S_https == <<"h", "t", "t", "p", "s">>
S_url_ok == <<"h", "t", "t", "p", "s", ":", "/", "/", "k", "v", ".", "n", "e", "t", "/">>
S_url_upper == <<"H", "T", "T", "P", "S", ":", "/", "/", "k", "v", ".", "n", "e", "t">>
S_url_ftp == <<"f", "t", "p", ":", "/", "/", "k", "v", ".", "n", "e", "t">>
S_url_nohost == <<"h", "t", "t", "p", "s", ":", "/", "/">>
S_url_kek ==
    <<"h", "t", "t", "p", "s", ":", "/", "/", "k", "v", ".", "n", "e", "t", "/", "k", "e",
      "y", "s", "/", "k">>
S_url_bracket == <<"h", "t", "t", "p", "s", ":", "/", "/", "[", "k", "v">>
S_uuid_ok ==
    <<"1", "2", "3", "4", "5", "6", "7", "8", "-", "1", "2", "3", "4", "-", "1", "2", "3",
      "4", "-", "1", "2", "3", "4", "-", "1", "2", "3", "4", "5", "6", "7", "8", "9", "0",
      "1", "2">>
S_uuid_hex ==
    <<"A", "B", "C", "D", "E", "F", "1", "2", "-", "a", "b", "c", "d", "-", "1", "2", "3",
      "4", "-", "1", "2", "3", "4", "-", "1", "2", "3", "4", "5", "6", "7", "8", "9", "a",
      "b", "c">>
S_uuid_bad == <<"n", "o", "t", "-", "a", "-", "u", "u", "i", "d">>
S_uuid_quoted ==
    <<"U+201C", "1", "2", "3", "4", "5", "6", "7", "8", "-", "1", "2", "3", "4", "-", "1",
      "2", "3", "4", "-", "1", "2", "3", "4", "-", "1", "2", "3", "4", "5", "6", "7", "8",
      "9", "0", "1", "2", "U+201D">>
S_mem_low == <<"6", "9", "9", "9", "9", "9", "9", "\n">>
S_mem_min == <<"7", "0", "0", "0", "0", "0", "0", "\n">>
S_mem_high == <<"8", "0", "0", "0", "0", "0", "0", "\n">>
S_mem_two == <<"7", "0", "0", "0", "0", "0", "0", "\n", "1", "2", "\n">>
S_mnt_data1 == <<"/", "m", "n", "t", "/", "d", "a", "t", "a", "1">>
S_mnt_data10 == <<"/", "m", "n", "t", "/", "d", "a", "t", "a", "1", "0">>
L_root == <<"d", " ", "/", " ", "x", "\n">>
L_sys == <<"s", " ", "/", "s", "y", "s", " ", "x", "\n">>
L_cgroup ==
    <<"c", " ", "/", "s", "y", "s", "/", "f", "s", "/", "c", "g", "r", "o", "u", "p", " ",
      "x", "\n">>
L_mnt == <<"d", " ", "/", "m", "n", "t", " ", "x", "\n">>
L_mnt_data1 == <<"d", " ", "/", "m", "n", "t", "/", "d", "a", "t", "a", "1", " ", "x", "\n">>
L_mnt_data10 ==
    <<"d", " ", "/", "m", "n", "t", "/", "d", "a", "t", "a", "1", "0", " ", "x", "\n">>
L_data3 == <<"d", " ", "/", "d", "a", "t", "a", "3", " ", "x", "\n">>
L_data3_data4 ==
    <<"d", " ", "/", "d", "a", "t", "a", "3", "/", "d", "a", "t", "a", "4", " ", "x", "\n">>
L_malformed == <<"n", "o", "n", "e", "\n">>
V_7 == <<"7">>
V_7_2 == <<"7", ".", "2">>
V_7_9 == <<"7", ".", "9">>
V_8_1 == <<"8", ".", "1">>
K_4_9 == <<"4", ".", "9">>
K_4_10 == <<"4", ".", "1", "0">>
K_4_10_0 == <<"4", ".", "1", "0", ".", "0">>
K_3_10_az == <<"3", ".", "1", "0", ".", "0", "-", "5", "1", "4", ".", "e", "l", "7">>
K_4_15_az ==
    <<"4", ".", "1", "5", ".", "0", "-", "1", "0", "2", "3", "-", "a", "z", "u", "r", "e">>
LV_tmplv == <<"r", "o", "o", "t", "v", "g", "-", "t", "m", "p", "l", "v">>
LV_usrlv == <<"r", "o", "o", "t", "v", "g", "-", "u", "s", "r", "l", "v">>
LV_optlv == <<"r", "o", "o", "t", "v", "g", "-", "o", "p", "t", "l", "v">>
LV_homelv == <<"r", "o", "o", "t", "v", "g", "-", "h", "o", "m", "e", "l", "v">>
LV_varlv == <<"r", "o", "o", "t", "v", "g", "-", "v", "a", "r", "l", "v">>
LV_rootlv == <<"r", "o", "o", "t", "v", "g", "-", "r", "o", "o", "t", "l", "v">>
LV_sda1 == <<"s", "d", "a", "1">>
S_proc == <<"/", "p", "r", "o", "c">>
S_run == <<"/", "r", "u", "n">>
S_sys == <<"/", "s", "y", "s">>
S_dev == <<"/", "d", "e", "v">>
S_cgroup == <<"/", "s", "y", "s", "/", "f", "s", "/", "c", "g", "r", "o", "u", "p">>
encryption_algorithms == <<S_RSA_OAEP, S_RSA_OAEP_256, S_RSA1_5>>
default_encryption_algorithm == S_RSA_OAEP

-----------------------------------------------------------------------------
(* urlparse.urlparse: the scheme and the network location of a URL *)

IsSchemeChar(c) == IsUpper(c) \/ IsLower(c) \/ IsDigit(c) \/ c \in {"+", "-", "."}

\* position of the first element of s, from position i on, that is in set; Len(s)+1 if none
RECURSIVE Find(_, _, _)
Find(s, set, i) ==
    IF i > Len(s) THEN Len(s) + 1
    ELSE IF s[i] \in set THEN i
    ELSE Find(s, set, i + 1)

Tail2(s, i) == SubSeq(s, i, Len(s))

urlparse(url) ==
    LET colon == Find(url, {":"}, 1)
        rest0 == Tail2(url, colon + 1)
        hasScheme == /\ colon > 1
                     /\ colon <= Len(url)
                     /\ \A i \in 1..(colon - 1) : IsSchemeChar(url[i])
                     /\ ~(rest0 # <<>> /\ \A i \in DOMAIN rest0 : IsDigit(rest0[i]))
        scheme == IF hasScheme THEN lower(SubSeq(url, 1, colon - 1)) ELSE <<>>
        rest == IF hasScheme THEN rest0 ELSE url
        hasNetloc == startswith(rest, <<"/", "/">>)
        stop == Find(rest, {"/", "?", "#"}, 3)
        netloc == IF hasNetloc THEN SubSeq(rest, 3, stop - 1) ELSE <<>>
        \* urlsplit raises ValueError("Invalid IPv6 URL") on an unbalanced bracket
        invalid == ("[" \in Range(netloc)) # ("]" \in Range(netloc))
    IN  [scheme |-> scheme, netloc |-> netloc, invalid |-> invalid]

\* the exception check_kv_url raises, or NoError
check_kv_url(test_url, message) ==
    IF test_url = None THEN KvException(message, "No URL supplied")
    ELSE LET parse_result == urlparse(test_url)
         IN  IF parse_result.invalid THEN KvException(message, "Malformed URL")
             ELSE IF ~(lower(parse_result.scheme) = S_https)
                  THEN KvException(message, "URL should be https")
             ELSE IF parse_result.netloc = <<>>
                  THEN KvException(message, "Malformed URL")
             ELSE NoError

-----------------------------------------------------------------------------
(* the validators of the requested configuration *)

KEK_ALGORITHM_UNRECOGNIZED == "The KEK encryption algorithm requested was not recognized"
UNKNOWN_VOLUME_TYPE == "Unknown Volume Type"
\* None has no method lower
NoneHasNoLower == Error("AttributeError", "'NoneType' object has no attribute 'lower'")

validate_key_vault_params(settings) ==
    LET encryption_operation == Get(settings, EncryptionEncryptionOperationKey)
        kek_url == Get(settings, KeyEncryptionKeyURLKey)
        kv_url == Get(settings, KeyVaultURLKey)
        kek_algorithm == Get(settings, KeyEncryptionAlgorithmKey)
        kv == check_kv_url(kv_url, "Encountered an error while checking the Key Vault URL")
        kek == check_kv_url(kek_url, "A KEK URL was specified, but was invalid")
    IN  IF ~In(encryption_operation, EnableOperations) THEN Returns(PyNone, <<>>, <<>>)
        ELSE IF kv # NoError THEN Raises(kv, <<>>, <<>>)
        ELSE IF Falsy(kek_url) THEN Returns(PyNone, <<>>, <<>>)
        ELSE IF kek # NoError THEN Raises(kek, <<>>, <<>>)
        ELSE IF kek_algorithm = None
                \/ ~In(lower(kek_algorithm), MapLower(encryption_algorithms))
             THEN IF ~Falsy(kek_algorithm)
                  THEN Raises(Exception(KEK_ALGORITHM_UNRECOGNIZED), <<>>, <<>>)
                  ELSE Returns(PyNone,
                               <<LogLine("No KEK algorithm specified will default to",
                                         default_encryption_algorithm)>>, <<>>)
        ELSE Returns(PyNone, <<>>, <<>>)

validate_volume_type(settings) ==
    LET encryption_operation == Get(settings, EncryptionEncryptionOperationKey)
        volume_type == Get(settings, VolumeTypeKey)
        supported_types == SupportedVolumeTypes
    IN  IF In(encryption_operation, <<QueryEncryptionStatus>>)
        THEN Returns(PyNone, <<LogLine("Ignore validating volume type for",
                                       QueryEncryptionStatus)>>, <<>>)
        ELSE IF volume_type = None THEN Raises(NoneHasNoLower, <<>>, <<>>)
        ELSE IF ~In(lower(volume_type), MapLower(supported_types))
             THEN Raises(Exception(UNKNOWN_VOLUME_TYPE), <<>>, <<>>)
        ELSE Returns(PyNone, <<>>, <<>>)

(* re.match(uuid_pattern, s, re.IGNORECASE): 8-4-4-4-12 hexadecimal digits; the
   closing $ also matches before one trailing newline *)
IsHex(c) == IsDigit(c) \/ LowerChar(c) \in {"a", "b", "c", "d", "e", "f"}
UuidDashes == {9, 14, 19, 24}
UuidLen == 36
IsUuid(s) ==
    /\ Len(s) = UuidLen
    /\ \A i \in DOMAIN s : IF i \in UuidDashes THEN s[i] = "-" ELSE IsHex(s[i])
MatchUuid(s) ==
    \/ IsUuid(s)
    \/ Len(s) = UuidLen + 1 /\ s[Len(s)] = "\n" /\ IsUuid(SubSeq(s, 1, UuidLen))

AAD_INVALID == "AADClientID value is missing or invalid."
AAD_INVALID_QUOTES == "AADClientID value is missing or invalid. Please remove Unicode quotation marks."
AAD_NOT_FOUND == "AADClientID property was not found in settings"

\* as validate_aad, the client id required of every operation
validate_aad_every_operation(settings) ==
    LET aad_client_id == Get(settings, AADClientIDKey)
    IN  IF ~Falsy(aad_client_id)
        THEN IF ~MatchUuid(aad_client_id)
             THEN Raises(Exception(AAD_INVALID), <<>>, <<>>)
             ELSE Returns(PyNone, <<>>, <<>>)
        ELSE Raises(Exception(AAD_NOT_FOUND), <<>>, <<>>)

validate_aad(settings) ==
    LET encryption_operation == Get(settings, EncryptionEncryptionOperationKey)
        aad_client_id == Get(settings, AADClientIDKey)
    IN  IF ~In(encryption_operation, EnableOperations) THEN Returns(PyNone, <<>>, <<>>)
        ELSE IF ~Falsy(aad_client_id)
             THEN IF ~MatchUuid(aad_client_id)
                  THEN IF "U+201C" \in Range(aad_client_id) \/ "U+201D" \in Range(aad_client_id)
                       THEN Raises(Exception(AAD_INVALID_QUOTES), <<>>, <<>>)
                       ELSE Raises(Exception(AAD_INVALID), <<>>, <<>>)
                  ELSE Returns(PyNone, <<>>, <<>>)
        ELSE Raises(Exception(AAD_NOT_FOUND), <<>>, <<>>)

-----------------------------------------------------------------------------
(* int(text): surrounding whitespace is ignored, then an optional sign and at
   least one digit; anything else is a ValueError *)

RECURSIVE LStrip(_)
LStrip(s) == IF s # <<>> /\ IsSpace(s[1]) THEN LStrip(Tail(s)) ELSE s
RECURSIVE RStrip(_)
RStrip(s) == IF s # <<>> /\ IsSpace(s[Len(s)]) THEN RStrip(SubSeq(s, 1, Len(s) - 1)) ELSE s
Strip(s) == RStrip(LStrip(s))

DigitValue(c) == IndexOf(c, Digits) - 1
RECURSIVE Number(_)
Number(ds) ==
    IF ds = <<>> THEN 0
    ELSE Number(SubSeq(ds, 1, Len(ds) - 1)) * 10 + DigitValue(ds[Len(ds)])

int(text) ==
    LET t == Strip(text)
        signed == t # <<>> /\ t[1] \in {"+", "-"}
        ds == IF signed THEN Tail(t) ELSE t
        ok == ds # <<>> /\ \A i \in DOMAIN ds : IsDigit(ds[i])
    IN  [ok |-> ok,
         n |-> IF ~ok THEN 0 ELSE IF signed /\ t[1] = "-" THEN 0 - Number(ds) ELSE Number(ds)]

-----------------------------------------------------------------------------
(* the non-fatal checks *)

AppCompatDirs == <<"./usr/sap">>
AppCompatFiles == <<"/etc/init.d/mongodb", "/etc/init.d/cassandra", "/etc/init.d/docker",
                    "/opt/Symantec/symantec_antivirus">>

\* the paths, in order, that the file system holds as kind ("dir" or "file")
Warnings(paths, kind, fs) ==
    LET Hit(p) == fs[p] = kind
    IN  SelectSeq(paths, Hit)

is_app_compat_issue_detected(h) ==
    LET dirs == Warnings(AppCompatDirs, "dir", h.fs)
        files == Warnings(AppCompatFiles, "file", h.fs)
        found == dirs \o files
    IN  Returns(Bool(found # <<>>),
                [i \in DOMAIN found |-> LogLine("WARNING: likely app compat issue", <<found[i]>>)],
                [i \in 1..(Len(AppCompatDirs) + Len(AppCompatFiles)) |->
                    IF i <= Len(AppCompatDirs)
                    THEN Probe("isdir", <<AppCompatDirs[i]>>)
                    ELSE Probe("isfile", <<AppCompatFiles[i - Len(AppCompatDirs)]>>)])

minsize == 7000000
ReadMemInfo == Probe("popen", <<"grep MemTotal /proc/meminfo">>)

\* as is_insufficient_memory, the minimum itself taken as insufficient
is_insufficient_memory_inclusive(h) ==
    LET memtotal == int(h.meminfo)
    IN  IF ~memtotal.ok
        THEN Raises(Error("ValueError", "invalid literal for int()"), <<>>, <<ReadMemInfo>>)
        ELSE IF memtotal.n <= minsize
             THEN Returns(PyTrue, <<LogLine("WARNING: total memory is less than 7GB",
                                            Strip(h.meminfo))>>, <<ReadMemInfo>>)
        ELSE Returns(PyFalse, <<>>, <<ReadMemInfo>>)

is_insufficient_memory(h) ==
    LET memtotal == int(h.meminfo)
    IN  IF ~memtotal.ok
        THEN Raises(Error("ValueError", "invalid literal for int()"), <<>>, <<ReadMemInfo>>)
        ELSE IF memtotal.n < minsize
             THEN Returns(PyTrue, <<LogLine("WARNING: total memory is less than 7GB",
                                            Strip(h.meminfo))>>, <<ReadMemInfo>>)
        ELSE Returns(PyFalse, <<>>, <<ReadMemInfo>>)

\* line.split(): the maximal runs of non-whitespace characters
RECURSIVE split(_)
split(line) ==
    LET s == LStrip(line)
        stop == Find(s, {" ", "\n", "\t"}, 1)
    IN  IF s = <<>> THEN <<>>
        ELSE <<SubSeq(s, 1, stop - 1)>> \o split(Tail2(s, stop))

ignorelist == <<<<"/">>, S_dev, S_proc, S_run, S_sys, S_cgroup>>
ReadMounts == Probe("open", <<"/proc/mounts">>)

\* the mount points of the lines read, the ignored ones left out
RECURSIVE MountPoints(_)
MountPoints(lines) ==
    IF lines = <<>> THEN <<>>
    ELSE LET mountpoint == split(lines[1])[2]
         IN  IF ~In(mountpoint, ignorelist)
             THEN <<mountpoint>> \o MountPoints(Tail(lines))
             ELSE MountPoints(Tail(lines))

\* the test of the two nested loops
\* (MountConflict_by_segment: the same by path segment, mnt2 inside the directory mnt1)
MountConflict_by_segment(mnt1, mnt2) == mnt1 # mnt2 /\ startswith(mnt2, mnt1 \o <<"/">>)
MountConflict(mnt1, mnt2) == mnt1 # mnt2 /\ startswith(mnt2, mnt1)
\* the pairs the two nested loops visit, in order, that are in conflict
ConflictingPairs(mounts) ==
    LET n == Len(mounts)
        pairs == [k \in 1..(n * n) |-> <<mounts[((k - 1) \div n) + 1], mounts[((k - 1) % n) + 1]>>]
        Conflict(p) == MountConflict(p[1], p[2])
    IN  SelectSeq(pairs, Conflict)

is_unsupported_mount_scheme(h) ==
    IF ~h.mounts_readable
    THEN Raises(Error("IOError", "No such file or directory: '/proc/mounts'"), <<>>, <<ReadMounts>>)
    ELSE IF \E i \in DOMAIN h.mounts : Len(split(h.mounts[i])) < 2
         THEN Raises(Error("IndexError", "list index out of range"), <<>>, <<ReadMounts>>)
    ELSE LET found == ConflictingPairs(MountPoints(h.mounts))
         IN  Returns(Bool(found # <<>>),
                     [i \in DOMAIN found |->
                        LogLine("WARNING: unsupported mount scheme", found[i][1] \o <<" ">> \o found[i][2])],
                     <<ReadMounts>>)

-----------------------------------------------------------------------------
(* the fatal checks of the host *)

\* grep -q pattern: some line of the output contains the pattern
Contains(line, pattern) ==
    \E i \in 1..(Len(line) - Len(pattern) + 1) : SubSeq(line, i, i + Len(pattern) - 1) = pattern
Grep(lines, pattern) == \E l \in lines : Contains(l, pattern)

\* as lvlist, rootvg-varlv forgotten
lvlist_without_varlv == <<LV_tmplv, LV_usrlv, LV_optlv, LV_homelv, LV_rootlv>>

lvlist == <<LV_tmplv, LV_usrlv, LV_optlv, LV_homelv, LV_varlv, LV_rootlv>>
LVM_INCOMPLETE == "LVM OS disk layout does not satisfy prerequisites ( see https://aka.ms/adelvm )"
LsblkRoot == Probe("lsblk -o TYPE,MOUNTPOINT", <<>>)

validate_lvm_os(settings, h) ==
    LET encryption_operation == Get(settings, EncryptionEncryptionOperationKey)
        volume_type == Get(settings, VolumeTypeKey)
        Missing(lvname) == ~Grep(h.lsblk_names, lvname)
        missing == SelectSeq(lvlist, Missing)
    IN  IF Falsy(encryption_operation)
        THEN Returns(PyNone, <<LogLine("LVM OS validation skipped (no encryption operation)", <<>>)>>, <<>>)
        ELSE IF lower(encryption_operation) = lower(QueryEncryptionStatus)
        THEN Returns(PyNone, <<LogLine("LVM OS validation skipped (Encryption Operation: QueryEncryptionStatus)", <<>>)>>, <<>>)
        ELSE IF Falsy(volume_type)
        THEN Returns(PyNone, <<LogLine("LVM OS validation skipped (no volume type)", <<>>)>>, <<>>)
        ELSE IF lower(volume_type) = lower(VolumeTypeData)
        THEN Returns(PyNone, <<LogLine("LVM OS validation skipped (Volume Type: DATA)", <<>>)>>, <<>>)
        ELSE IF ~h.root_on_lvm
        THEN Returns(PyNone, <<>>, <<LsblkRoot>>)
        ELSE LET l == [i \in DOMAIN missing |-> LogLine("LVM OS scheme is missing LV", missing[i])]
                 p == <<LsblkRoot>> \o [i \in DOMAIN lvlist |-> Probe("lsblk -o NAME", lvlist[i])]
             IN  IF missing # <<>>
                 THEN Raises(Exception(LVM_INCOMPLETE), l, p)
                 ELSE Returns(PyNone, l, p)

VFAT_MISSING == "Incompatible system, prerequisite vfat module was not found."
Modprobe == Probe("modprobe vfat", <<>>)

\* CommandExecutor.Execute(command, True) raises when the command fails
validate_vfat(h) ==
    IF h.vfat
    THEN Returns(PyNone, <<>>, <<Modprobe>>)
    ELSE Raises(Error("RuntimeError", VFAT_MISSING), <<>>, <<Modprobe>>)

NOT_ENOUGH_MEMORY == "Not enough memory for enabling encryption on OS volume. 8 GB memory is recommended."
NotEncrypted == "NotEncrypted"

validate_memory_os_encryption(settings, status, h) ==
    LET encryption_operation == Get(settings, EncryptionEncryptionOperationKey)
        is_enable_operation == In(encryption_operation, EnableOperations)
        volume_type == Get(settings, VolumeTypeKey)
        mem == is_insufficient_memory(h)
    IN  IF ~is_enable_operation THEN Returns(PyNone, <<>>, <<>>)
        ELSE IF volume_type = None THEN Raises(NoneHasNoLower, <<>>, <<>>)
        ELSE IF ~(~(lower(volume_type) = lower(VolumeTypeData)) /\ status["os"] = NotEncrypted)
        THEN Returns(PyNone, <<>>, <<>>)
        ELSE IF mem.raised # NoError THEN mem
        ELSE IF mem.ret = PyTrue THEN Raises(Exception(NOT_ENOUGH_MEMORY), mem.log, mem.probes)
        ELSE Returns(PyNone, mem.log, mem.probes)

-----------------------------------------------------------------------------
(* distutils.version.LooseVersion: a version string is cut into its maximal runs
   of digits, of lower-case letters and of other characters, the dots dropped
   and the runs of digits read as numbers; two versions compare as the lists of
   their components do, a number below every string *)

CharClass(c) ==
    IF IsDigit(c) THEN "digits" ELSE IF IsLower(c) THEN "letters" ELSE IF c = "." THEN "dot" ELSE "other"

\* the end of the run that starts at position i of s
RECURSIVE RunEnd(_, _)
RunEnd(s, i) ==
    IF i < Len(s) /\ CharClass(s[i + 1]) = CharClass(s[i]) /\ CharClass(s[i]) # "dot"
    THEN RunEnd(s, i + 1)
    ELSE i

\* as Component, the runs of digits left as text
Component_as_text(run) == [isint |-> FALSE, n |-> 0, s |-> run]

Component(run) ==
    IF IsDigit(run[1]) THEN [isint |-> TRUE, n |-> Number(run), s |-> <<>>]
    ELSE [isint |-> FALSE, n |-> 0, s |-> run]

RECURSIVE LooseVersion(_)
LooseVersion(vstring) ==
    IF vstring = <<>> THEN <<>>
    ELSE LET e == RunEnd(vstring, 1)
             run == SubSeq(vstring, 1, e)
             rest == LooseVersion(Tail2(vstring, e + 1))
         IN  IF run = <<".">> THEN rest ELSE <<Component(run)>> \o rest

\* the characters in ASCII order
Ascii == <<"\n", " ", "#", "+", "-", ".", "/", "0", "1", "2", "3", "4", "5", "6", "7", "8", "9",
           ":", "?", "A", "B", "C", "D", "E", "F", "G", "H", "I", "J", "K", "L", "M", "N", "O", "P",
           "Q", "R", "S", "T", "U", "V", "W", "X", "Y", "Z", "[", "]", "_", "a", "b", "c", "d", "e",
           "f", "g", "h", "i", "j", "k", "l", "m", "n", "o", "p", "q", "r", "s", "t", "u", "v", "w",
           "x", "y", "z">>
ord(c) == IndexOf(c, Ascii)

RECURSIVE StrLess(_, _)
StrLess(a, b) ==
    IF b = <<>> THEN FALSE
    ELSE IF a = <<>> THEN TRUE
    ELSE IF a[1] # b[1] THEN ord(a[1]) < ord(b[1])
    ELSE StrLess(Tail(a), Tail(b))

ComponentLess(x, y) ==
    IF x.isint /\ y.isint THEN x.n < y.n
    ELSE IF x.isint # y.isint THEN x.isint
    ELSE StrLess(x.s, y.s)

RECURSIVE VersionLess(_, _)
VersionLess(v, w) ==
    IF w = <<>> THEN FALSE
    ELSE IF v = <<>> THEN TRUE
    ELSE IF v[1] # w[1] THEN ComponentLess(v[1], w[1])
    ELSE VersionLess(Tail(v), Tail(w))

-----------------------------------------------------------------------------
(* the supported-OS matrix *)

KERNEL_NOT_SUPPORTED == "Kernel version is not supported. Upgrade to kernel version"
DISTRO_NOT_SUPPORTED == "Distro is not supported for OS encryption"
ReadDistroInfo == Probe("DistroPatcher.distro_info", <<>>)
ReadSupportedOS == Probe("open", <<"main/SupportedOS.json">>)

\* the loop over the entries of the distro: the first entry whose Version is a
\* prefix of the running version decides
RECURSIVE MatchVersions(_, _, _)
MatchVersions(versions, distro_version, kernel_version) ==
    IF versions = <<>> THEN Exception(DISTRO_NOT_SUPPORTED)
    ELSE LET version == versions[1]
         IN  IF startswith(distro_version, version["Version"])
             THEN IF "Kernel" \in DOMAIN version
                     /\ VersionLess(LooseVersion(kernel_version), LooseVersion(version["Kernel"]))
                  THEN Exception(KERNEL_NOT_SUPPORTED)
                  ELSE NoError
             ELSE MatchVersions(Tail(versions), distro_version, kernel_version)

\* as is_supported_os, skipped only for an OS volume whose state is Encrypted
is_supported_os_encrypted_only(settings, patcher, status, data) ==
    LET encryption_operation == Get(settings, EncryptionEncryptionOperationKey)
        volume_type == Get(settings, VolumeTypeKey)
        distro_name == patcher.distro_info[1]
        distro_version == patcher.distro_info[2]
        p == <<ReadDistroInfo, ReadSupportedOS>>
        e == IF distro_name \in DOMAIN data
             THEN MatchVersions(data[distro_name], distro_version, patcher.kernel_version)
             ELSE Exception(DISTRO_NOT_SUPPORTED)
    IN  IF In(encryption_operation, <<QueryEncryptionStatus>>)
        THEN Returns(PyNone, <<LogLine("Query encryption operation detected. Skipping OS encryption validation check.", <<>>)>>, <<>>)
        ELSE IF volume_type = None THEN Raises(NoneHasNoLower, <<>>, <<>>)
        ELSE IF lower(volume_type) = lower(VolumeTypeData)
        THEN Returns(PyNone, <<LogLine("Volume Type is DATA. Skipping OS encryption validation check.", <<>>)>>, <<>>)
        ELSE IF status["os"] = "Encrypted"
        THEN Returns(PyNone, <<LogLine("OS volume already encrypted. Skipping OS encryption validation check.", <<>>)>>, <<>>)
        ELSE IF e # NoError THEN Raises(e, <<>>, p)
        ELSE Returns(PyNone, <<>>, p)

is_supported_os(settings, patcher, status, data) ==
    LET encryption_operation == Get(settings, EncryptionEncryptionOperationKey)
        volume_type == Get(settings, VolumeTypeKey)
        distro_name == patcher.distro_info[1]
        distro_version == patcher.distro_info[2]
        p == <<ReadDistroInfo, ReadSupportedOS>>
        e == IF distro_name \in DOMAIN data
             THEN MatchVersions(data[distro_name], distro_version, patcher.kernel_version)
             ELSE Exception(DISTRO_NOT_SUPPORTED)
    IN  IF In(encryption_operation, <<QueryEncryptionStatus>>)
        THEN Returns(PyNone, <<LogLine("Query encryption operation detected. Skipping OS encryption validation check.", <<>>)>>, <<>>)
        ELSE IF volume_type = None THEN Raises(NoneHasNoLower, <<>>, <<>>)
        ELSE IF lower(volume_type) = lower(VolumeTypeData)
        THEN Returns(PyNone, <<LogLine("Volume Type is DATA. Skipping OS encryption validation check.", <<>>)>>, <<>>)
        ELSE IF status["os"] # NotEncrypted
        THEN Returns(PyNone, <<LogLine("OS volume already encrypted. Skipping OS encryption validation check.", <<>>)>>, <<>>)
        ELSE IF e # NoError THEN Raises(e, <<>>, p)
        ELSE Returns(PyNone, <<>>, p)

-----------------------------------------------------------------------------
(* the two sequences of prechecks *)

PRECHECK_APP_COMPAT == "PRECHECK: Likely app compat issue detected"
PRECHECK_LOW_MEMORY == "PRECHECK: Low memory condition detected"
PRECHECK_MOUNT_SCHEME == "PRECHECK: Unsupported mount scheme detected"

\* the lines and probes of a check that returned, and the PRECHECK line if it returned True
Detected(r, line) == r.log \o (IF r.ret = PyTrue THEN <<LogLine(line, <<>>)>> ELSE <<>>)

is_non_fatal_precheck_failure(h) ==
    LET app == is_app_compat_issue_detected(h)
        mem == is_insufficient_memory(h)
        mnt == is_unsupported_mount_scheme(h)
        l1 == Detected(app, PRECHECK_APP_COMPAT)
        l2 == l1 \o Detected(mem, PRECHECK_LOW_MEMORY)
        l3 == l2 \o Detected(mnt, PRECHECK_MOUNT_SCHEME)
    IN  IF mem.raised # NoError
        THEN Raises(mem.raised, l1 \o mem.log, app.probes \o mem.probes)
        ELSE IF mnt.raised # NoError
        THEN Raises(mnt.raised, l2 \o mnt.log, app.probes \o mem.probes \o mnt.probes)
        ELSE Returns(Bool(app.ret = PyTrue \/ mem.ret = PyTrue \/ mnt.ret = PyTrue),
                     l3, app.probes \o mem.probes \o mnt.probes)

\* the steps of precheck_for_fatal_failures, in the order of its statements
FatalOrder == <<"validate_key_vault_params", "validate_volume_type", "validate_lvm_os",
                "validate_vfat", "validate_aad", "validate_memory_os_encryption",
                "is_supported_os">>

\* where precheck_for_fatal_failures is: at statement 1..7, past the last one (returned),
\* or left by an exception
Aborted == 0

\* as AfterStep, the exception of a statement swallowed
AfterStep_swallowed(k, e) == k + 1

\* a statement that raises ends the function; otherwise the next statement runs
AfterStep(k, e) == IF e # NoError THEN Aborted ELSE k + 1

-----------------------------------------------------------------------------
(* the inputs *)

SettingsKeys == {EncryptionEncryptionOperationKey, VolumeTypeKey, KeyVaultURLKey,
                 KeyEncryptionKeyURLKey, KeyEncryptionAlgorithmKey, AADClientIDKey}

\* the dict with the keys whose value is not None
Settings(op, vt, kv, kek, alg, aad) ==
    LET all == [EncryptionOperation |-> op, VolumeType |-> vt, KeyVaultURL |-> kv,
                KeyEncryptionKeyURL |-> kek, KeyEncryptionAlgorithm |-> alg,
                AADClientID |-> aad]
    IN  [k \in {key \in SettingsKeys : all[key] # None} |-> all[k]]

Operations == {None, EnableEncryption, EnableEncryptionFormat, EnableEncryptionFormatAll,
               QueryEncryptionStatus, S_queryencryptionstatus, DisableEncryption}
VolumeTypes == {None, <<>>, VolumeTypeOS, VolumeTypeData, VolumeTypeAll, S_os, S_DATA, S_Disk}
VaultUrls == {None, S_url_ok, S_url_upper, S_url_ftp, S_url_nohost, S_url_bracket}
KekUrls == {None, S_url_kek}
Algorithms == {None, S_rsa_oaep, S_AES}
ClientIds == {None, S_uuid_ok, S_uuid_hex, S_uuid_bad, S_uuid_quoted}
OsStates == {"NotEncrypted", "Encrypted", "EncryptionInProgress"}
MemInfos == {<<>>, S_mem_low, S_mem_min, S_mem_high, S_mem_two}

Status(os) == [os |-> os, data |-> "NotEncrypted"]
Patcher(name, version, kernel) == [distro_info |-> <<name, version>>, kernel_version |-> kernel]

AppCompatPaths == Range(AppCompatDirs) \cup Range(AppCompatFiles)
NoFiles == [p \in AppCompatPaths |-> "none"]
FileSystems ==
    {NoFiles,
     [NoFiles EXCEPT !["./usr/sap"] = "dir"],
     [NoFiles EXCEPT !["/etc/init.d/mongodb"] = "file", !["/opt/Symantec/symantec_antivirus"] = "dir"],
     [NoFiles EXCEPT !["./usr/sap"] = "file", !["/etc/init.d/docker"] = "file"]}

MountLines == {L_root, L_sys, L_cgroup, L_mnt, L_mnt_data1, L_mnt_data10, L_data3, L_data3_data4}
\* mount tables with a line that has no second field
MalformedTables == {<<L_malformed>>, <<<<"\n">>>>, <<L_mnt, L_malformed, L_mnt_data1>>}
MaxMounts == 3
RECURSIVE SeqsUpTo(_, _)
SeqsUpTo(S, n) ==
    IF n = 0 THEN {<<>>}
    ELSE LET shorter == SeqsUpTo(S, n - 1)
         IN  shorter \cup {Append(s, x) : s \in {t \in shorter : Len(t) = n - 1}, x \in S}

LsblkNames == Range(lvlist) \cup {LV_sda1}
AllVolumes == Range(lvlist)

Host(meminfo, readable, mounts, fs, lvm, names, vfat) ==
    [meminfo |-> meminfo, mounts_readable |-> readable, mounts |-> mounts, fs |-> fs,
     root_on_lvm |-> lvm, lsblk_names |-> names, vfat |-> vfat]
QuietHost == Host(S_mem_high, TRUE, <<L_root>>, NoFiles, FALSE, {LV_sda1}, TRUE)

Entry(version, kernel) ==
    IF kernel = None THEN [Version |-> version] ELSE [Version |-> version, Kernel |-> kernel]
Entries == {Entry(V_7, None), Entry(V_7, K_4_10), Entry(V_7_2, None), Entry(V_7_2, K_4_10),
            Entry(V_8_1, K_3_10_az)}
MaxVersions == 2
SomeMatrix == [d \in {"redhat"} |-> <<Entry(V_7_2, K_4_10), Entry(V_7, None)>>]

NoCall ==
    /\ call = "none"
    /\ raised = NoError
    /\ ret = PyNone
    /\ log = <<>>
    /\ probes = <<>>
    /\ pc = Aborted
    /\ started = <<>>

\* a call of a method: the state holds what the call did
Called(name, r) ==
    /\ call' = name
    /\ raised' = r.raised
    /\ ret' = r.ret
    /\ log' = r.log
    /\ probes' = r.probes
    /\ UNCHANGED <<inputs, pc, started>>

Call_validate_key_vault_params ==
    Called("validate_key_vault_params", validate_key_vault_params(public_settings))
Call_validate_volume_type ==
    Called("validate_volume_type", validate_volume_type(public_settings))
Call_validate_lvm_os ==
    Called("validate_lvm_os", validate_lvm_os(public_settings, host))
Call_validate_vfat ==
    Called("validate_vfat", validate_vfat(host))
Call_validate_aad ==
    Called("validate_aad", validate_aad(public_settings))
Call_validate_memory_os_encryption ==
    Called("validate_memory_os_encryption",
           validate_memory_os_encryption(public_settings, encryption_status, host))
Call_is_supported_os ==
    Called("is_supported_os",
           is_supported_os(public_settings, DistroPatcher, encryption_status, supported_os))
Call_is_app_compat_issue_detected ==
    Called("is_app_compat_issue_detected", is_app_compat_issue_detected(host))
Call_is_insufficient_memory ==
    Called("is_insufficient_memory", is_insufficient_memory(host))
Call_is_unsupported_mount_scheme ==
    Called("is_unsupported_mount_scheme", is_unsupported_mount_scheme(host))
Call_is_non_fatal_precheck_failure ==
    Called("is_non_fatal_precheck_failure", is_non_fatal_precheck_failure(host))

-----------------------------------------------------------------------------
(* the validators of the configuration, called on any configuration *)

InitSettings ==
    /\ public_settings \in {Settings(op, vt, kv, kek, alg, aad) :
            op \in Operations, vt \in VolumeTypes, kv \in {None, S_url_ok, S_url_ftp},
            kek \in KekUrls, alg \in Algorithms, aad \in ClientIds}
    /\ encryption_status \in {Status(os) : os \in OsStates}
    /\ DistroPatcher = Patcher("redhat", V_7_2, K_4_9)
    /\ supported_os = SomeMatrix
    /\ host \in {[QuietHost EXCEPT !.meminfo = m] : m \in MemInfos}
    /\ NoCall

NextSettings ==
    \/ Call_validate_key_vault_params
    \/ Call_validate_volume_type
    \/ Call_validate_aad
    \/ Call_validate_memory_os_encryption
    \/ Call_is_supported_os

SpecSettings == InitSettings /\ [][NextSettings]_vars

-----------------------------------------------------------------------------
(* the checks of the block devices and of the kernel module *)

InitLvm ==
    /\ public_settings \in {Settings(op, vt, None, None, None, None) :
            op \in Operations \cup {<<>>}, vt \in VolumeTypes}
    /\ encryption_status = Status("NotEncrypted")
    /\ DistroPatcher = Patcher("redhat", V_7_2, K_4_9)
    /\ supported_os = SomeMatrix
    /\ host \in {[QuietHost EXCEPT !.root_on_lvm = lvm, !.lsblk_names = names, !.vfat = vfat] :
            lvm \in BOOLEAN, names \in SUBSET LsblkNames, vfat \in BOOLEAN}
    /\ NoCall

NextLvm ==
    \/ Call_validate_lvm_os
    \/ Call_validate_vfat

SpecLvm == InitLvm /\ [][NextLvm]_vars

-----------------------------------------------------------------------------
(* the supported-OS check, on any matrix of at most MaxVersions entries *)

InitOs ==
    /\ public_settings \in {Settings(op, vt, None, None, None, None) :
            op \in {None, EnableEncryption, EnableEncryptionFormatAll, QueryEncryptionStatus,
                    DisableEncryption},
            vt \in {None, VolumeTypeOS, VolumeTypeAll, VolumeTypeData, S_DATA}}
    /\ encryption_status \in {Status(os) : os \in OsStates}
    /\ DistroPatcher \in {Patcher(name, version, kernel) :
            name \in {"redhat", "sles"}, version \in {V_7_2, V_7_9, V_8_1},
            kernel \in {K_4_9, K_4_10, K_4_10_0, K_3_10_az, K_4_15_az}}
    /\ supported_os \in {[d \in {"redhat"} |-> versions] : versions \in SeqsUpTo(Entries, MaxVersions)}
    /\ host = QuietHost
    /\ NoCall

NextOs == Call_is_supported_os

SpecOs == InitOs /\ [][NextOs]_vars

-----------------------------------------------------------------------------
(* the non-fatal checks, on any host *)

InitNonFatal ==
    /\ public_settings = Settings(EnableEncryption, VolumeTypeOS, None, None, None, None)
    /\ encryption_status = Status("NotEncrypted")
    /\ DistroPatcher = Patcher("redhat", V_7_2, K_4_9)
    /\ supported_os = SomeMatrix
    /\ host \in {[QuietHost EXCEPT !.meminfo = m, !.mounts_readable = TRUE, !.mounts = mounts,
                                   !.fs = fs] :
            m \in MemInfos, fs \in FileSystems,
            mounts \in SeqsUpTo(MountLines, MaxMounts) \cup MalformedTables}
               \cup {[QuietHost EXCEPT !.meminfo = m, !.mounts_readable = FALSE, !.mounts = <<>>,
                                       !.fs = fs] :
            m \in MemInfos, fs \in FileSystems}
    /\ NoCall

NextNonFatal ==
    \/ Call_is_app_compat_issue_detected
    \/ Call_is_insufficient_memory
    \/ Call_is_unsupported_mount_scheme
    \/ Call_is_non_fatal_precheck_failure

SpecNonFatal == InitNonFatal /\ [][NextNonFatal]_vars

-----------------------------------------------------------------------------
(* precheck_for_fatal_failures, statement by statement *)

Init ==
    /\ public_settings \in {Settings(op, vt, kv, None, None, aad) :
            op \in {None, EnableEncryption, QueryEncryptionStatus, DisableEncryption},
            vt \in {None, VolumeTypeOS, S_DATA, S_Disk},
            kv \in VaultUrls, aad \in {S_uuid_ok, S_uuid_hex, S_uuid_bad}}
    /\ encryption_status \in {Status(os) : os \in {"NotEncrypted", "Encrypted"}}
    /\ DistroPatcher \in {Patcher(name, V_7_2, kernel) :
            name \in {"redhat", "sles"}, kernel \in {K_4_9, K_4_10}}
    /\ supported_os = SomeMatrix
    /\ host \in {[QuietHost EXCEPT !.meminfo = m, !.root_on_lvm = lvm, !.lsblk_names = names,
                                   !.vfat = vfat] :
            m \in {<<>>, S_mem_low, S_mem_high}, lvm \in BOOLEAN,
            names \in {AllVolumes, AllVolumes \ {LV_varlv}}, vfat \in BOOLEAN}
    /\ call = "precheck_for_fatal_failures"
    /\ raised = NoError
    /\ ret = PyNone
    /\ log = <<>>
    /\ probes = <<>>
    /\ pc = 1
    /\ started = <<>>

\* statement k of precheck_for_fatal_failures: a call whose exception is not caught
Statement(k, r) ==
    /\ pc = k
    /\ started' = Append(started, FatalOrder[k])
    /\ raised' = r.raised
    /\ log' = log \o r.log
    /\ probes' = probes \o r.probes
    /\ pc' = AfterStep(k, r.raised)
    /\ UNCHANGED <<inputs, call, ret>>

Step_validate_key_vault_params == Statement(1, validate_key_vault_params(public_settings))
Step_validate_volume_type == Statement(2, validate_volume_type(public_settings))
Step_validate_lvm_os == Statement(3, validate_lvm_os(public_settings, host))
Step_validate_vfat == Statement(4, validate_vfat(host))
Step_validate_aad == Statement(5, validate_aad(public_settings))
Step_validate_memory_os_encryption ==
    Statement(6, validate_memory_os_encryption(public_settings, encryption_status, host))
Step_is_supported_os ==
    Statement(7, is_supported_os(public_settings, DistroPatcher, encryption_status, supported_os))

Next ==
    \/ Step_validate_key_vault_params
    \/ Step_validate_volume_type
    \/ Step_validate_lvm_os
    \/ Step_validate_vfat
    \/ Step_validate_aad
    \/ Step_validate_memory_os_encryption
    \/ Step_is_supported_os

Spec == Init /\ [][Next]_vars

-----------------------------------------------------------------------------
(* the claims *)

Operation == Get(public_settings, EncryptionEncryptionOperationKey)
VolumeType == Get(public_settings, VolumeTypeKey)

\* a and b are the same string, the case of the letters ignored
SameIgnoringCase(a, b) ==
    /\ a # None
    /\ Len(a) = Len(b)
    /\ \A i \in DOMAIN a :
          \/ a[i] = b[i]
          \/ \E k \in DOMAIN UpperCase : {a[i], b[i]} = {UpperCase[k], LowerCase[k]}
IsEnable == Operation \in {EnableEncryption, EnableEncryptionFormat, EnableEncryptionFormatAll}
IsQuery == Operation = QueryEncryptionStatus
IsData == SameIgnoringCase(VolumeType, <<"D", "a", "t", "a">>)
IsSupportedVolumeType ==
    \E t \in {<<"O", "S">>, <<"D", "a", "t", "a">>, <<"A", "l", "l">>} : SameIgnoringCase(VolumeType, t)
OsNotEncrypted == encryption_status.os = "NotEncrypted"

\* what statement k of precheck_for_fatal_failures does on the inputs of the run
FatalStepResult(k) ==
    CASE k = 1 -> validate_key_vault_params(public_settings)
      [] k = 2 -> validate_volume_type(public_settings)
      [] k = 3 -> validate_lvm_os(public_settings, host)
      [] k = 4 -> validate_vfat(host)
      [] k = 5 -> validate_aad(public_settings)
      [] k = 6 -> validate_memory_os_encryption(public_settings, encryption_status, host)
      [] k = 7 -> is_supported_os(public_settings, DistroPatcher, encryption_status, supported_os)

RECURSIVE ProbesOfSteps(_)
ProbesOfSteps(n) == IF n = 0 THEN <<>> ELSE ProbesOfSteps(n - 1) \o FatalStepResult(n).probes

(* C1: precheck_for_fatal_failures starts its steps in the order key-vault
   params, volume type, LVM layout, vfat probe, AAD client id, memory, OS
   support; every step before the last one started passed; a failure is the
   failure of the last step started, it ends the run with that error, and the
   host has been probed by the started steps only.  A failing volume-type
   check leaves the LVM check, the module probe and the AAD check unstarted. *)
C1_FirstFailureAborts ==
    /\ started = SubSeq(<<"validate_key_vault_params", "validate_volume_type", "validate_lvm_os",
                          "validate_vfat", "validate_aad", "validate_memory_os_encryption",
                          "is_supported_os">>, 1, Len(started))
    /\ \A i \in 1..(Len(started) - 1) : FatalStepResult(i).raised = NoError
    /\ probes = ProbesOfSteps(Len(started))
    /\ IF raised = NoError
       THEN pc = Len(started) + 1
       ELSE /\ started # <<>>
            /\ raised = FatalStepResult(Len(started)).raised
            /\ pc = Aborted
            /\ ~ENABLED Next
    /\ (FatalStepResult(1).raised = NoError /\ FatalStepResult(2).raised # NoError) =>
          /\ Len(started) <= 2
          /\ Range(probes) \cap {LsblkRoot, Modprobe} = {}

\* the volume-type check failed on a host whose LVM layout and vfat module would fail too
C1_Witness ==
    /\ pc = Aborted
    /\ started = <<"validate_key_vault_params", "validate_volume_type">>
    /\ raised = Exception(UNKNOWN_VOLUME_TYPE)
    /\ host.root_on_lvm /\ LV_varlv \notin host.lsblk_names /\ ~host.vfat
    /\ probes = <<>>

(* C2 (as claimed): is_non_fatal_precheck_failure always evaluates the app-compat
   check, the memory check and the mount-scheme check, in that order, and
   returns True exactly when one of the three returned True. *)
C2_AllThreeChecksRun ==
    call = "is_non_fatal_precheck_failure" =>
        LET app == is_app_compat_issue_detected(host)
            mem == is_insufficient_memory(host)
            mnt == is_unsupported_mount_scheme(host)
        IN  /\ probes = app.probes \o <<ReadMemInfo>> \o <<ReadMounts>>
            /\ ret = Bool(PyTrue \in {app.ret, mem.ret, mnt.ret})

(* C3 (as claimed): the non-fatal checks never raise: each of them, and
   is_non_fatal_precheck_failure, ends by returning True or False. *)
C3_NonFatalNeverRaises ==
    call \in {"is_app_compat_issue_detected", "is_insufficient_memory",
              "is_unsupported_mount_scheme", "is_non_fatal_precheck_failure"} =>
        /\ raised = NoError
        /\ ret \in {PyTrue, PyFalse}

QueryValidators == {"validate_volume_type", "validate_key_vault_params", "validate_aad",
                    "validate_memory_os_encryption", "is_supported_os"}

(* C4: on a configuration whose operation is QueryEncryptionStatus, whatever its
   other keys, the encryption status and the memory are, validate_volume_type,
   validate_key_vault_params, validate_aad, validate_memory_os_encryption and
   is_supported_os return without raising and without probing the host (no
   memory read, no read of the supported-OS matrix), and leave the
   configuration, the status, the distro info, the matrix and the host as
   they were. *)
C4_QueryStatusIsNoOp ==
    /\ [](IsQuery /\ call \in QueryValidators =>
            raised = NoError /\ ret = PyNone /\ probes = <<>>)
    /\ [][IsQuery => UNCHANGED inputs]_vars

\* the memory check ran on a query-status configuration without volume type, on a host
\* whose memory cannot be read and an OS volume that is not encrypted
C4_Witness ==
    /\ call = "validate_memory_os_encryption"
    /\ IsQuery
    /\ VolumeType = None
    /\ Get(public_settings, AADClientIDKey) = None
    /\ Get(public_settings, KeyVaultURLKey) = None
    /\ host.meminfo = <<>>
    /\ OsNotEncrypted
    /\ raised = NoError

(* C5 (as claimed): for an operation other than QueryEncryptionStatus,
   validate_volume_type fails with the "Unknown Volume Type" error for every
   volume type that is not OS, Data or All in some case, an absent volume type
   included, and succeeds for every case variant of OS, Data and All. *)
C5_UnknownVolumeTypeRejected ==
    (call = "validate_volume_type" /\ ~IsQuery) =>
        IF IsSupportedVolumeType
        THEN raised = NoError
        ELSE raised = Exception(UNKNOWN_VOLUME_TYPE)

Versions == IF DistroPatcher.distro_info[1] \in DOMAIN supported_os
            THEN supported_os[DistroPatcher.distro_info[1]]
            ELSE <<>>
RunningVersion == DistroPatcher.distro_info[2]
\* b begins with a
IsPrefix(a, b) == \E k \in 0..Len(b) : SubSeq(b, 1, k) = a
\* the entries of the running distro whose Version is a prefix of the running version
Matching == {i \in DOMAIN Versions : IsPrefix(Versions[i].Version, RunningVersion)}
FirstMatching == CHOOSE i \in Matching : \A j \in Matching : i <= j
\* the pairs (running kernel, minimum) with the running kernel below the minimum, the
\* dot-separated numbers compared one by one: 4.9 < 4.10, 3.10.0 < 4.10
KernelBelow ==
    {<<<<"4", ".", "9">>, <<"4", ".", "1", "0">>>>,
     <<<<"3", ".", "1", "0", ".", "0", "-", "5", "1", "4", ".", "e", "l", "7">>,
       <<"4", ".", "1", "0">>>>}

OsCheckApplies == ~IsQuery /\ VolumeType # None /\ ~IsData /\ OsNotEncrypted

(* C6: when the OS-support check applies (operation not query-status, a volume
   type other than Data, OS status NotEncrypted), is_supported_os fails with the
   "Distro ... is not supported" error if the distro is not in the matrix or no
   entry of the distro has a Version that is a prefix of the running version;
   otherwise the first such entry, in file order, decides alone: the check
   fails with the "Kernel version ... is not supported" error if that entry has
   a Kernel minimum and the running kernel is below it, numerically by dotted
   component (4.9 < 4.10), and it succeeds otherwise. *)
C6_FirstPrefixMatchDecides ==
    (call = "is_supported_os" /\ OsCheckApplies) =>
        IF Matching = {}
        THEN raised = Exception(DISTRO_NOT_SUPPORTED)
        ELSE LET entry == Versions[FirstMatching]
             IN  IF "Kernel" \in DOMAIN entry
                    /\ <<DistroPatcher.kernel_version, entry.Kernel>> \in KernelBelow
                 THEN raised = Exception(KERNEL_NOT_SUPPORTED)
                 ELSE raised = NoError

\* kernel 4.9 on version 7.2: the first matching entry asks for 4.10 and the check
\* fails, although the second matching entry asks for no kernel
C6_Witness ==
    /\ call = "is_supported_os"
    /\ OsCheckApplies
    /\ Versions = <<[Version |-> <<"7">>, Kernel |-> <<"4", ".", "1", "0">>],
                    [Version |-> <<"7", ".", "2">>]>>
    /\ RunningVersion = <<"7", ".", "2">>
    /\ DistroPatcher.kernel_version = <<"4", ".", "9">>
    /\ raised = Exception(KERNEL_NOT_SUPPORTED)

ConsultsMatrix == probes = <<ReadDistroInfo, ReadSupportedOS>>
OsCheckCalled == call = "is_supported_os" /\ (IsQuery \/ VolumeType # None)

(* C7 (as claimed): is_supported_os returns without consulting the distro info or
   the matrix when the operation is query-status, the volume type is Data or the
   OS volume is encrypted, and consults the matrix in every other case. *)
C7_SkippedOnlyWhenEncrypted ==
    OsCheckCalled =>
        IF IsQuery \/ IsData \/ encryption_status.os = "Encrypted"
        THEN raised = NoError /\ probes = <<>>
        ELSE ConsultsMatrix

(* C7 (amended): is_supported_os returns without consulting the distro info or
   the matrix when the operation is query-status, the volume type is Data or the
   OS status is anything but NotEncrypted (EncryptionInProgress included); in
   every other case it consults the matrix, and fails if the distro is not in it. *)
C7_SkippedUnlessNotEncrypted ==
    OsCheckCalled =>
        IF IsQuery \/ IsData \/ encryption_status.os # "NotEncrypted"
        THEN raised = NoError /\ probes = <<>>
        ELSE /\ ConsultsMatrix
             /\ DistroPatcher.distro_info[1] \notin DOMAIN supported_os => raised # NoError

\* an OS volume whose encryption is in progress, on a distro the matrix does not have
C7_Witness ==
    /\ call = "is_supported_os"
    /\ IsEnable
    /\ VolumeType = <<"O", "S">>
    /\ encryption_status.os = "EncryptionInProgress"
    /\ DistroPatcher.distro_info[1] \notin DOMAIN supported_os
    /\ raised = NoError
    /\ probes = <<>>

\* the mount point of each line of /proc/mounts that has one
MountPointOf(line) ==
    CASE line = L_root -> <<"/">>
      [] line = L_sys -> <<"/", "s", "y", "s">>
      [] line = L_cgroup -> <<"/", "s", "y", "s", "/", "f", "s", "/", "c", "g", "r", "o", "u", "p">>
      [] line = L_mnt -> <<"/", "m", "n", "t">>
      [] line = L_mnt_data1 -> <<"/", "m", "n", "t", "/", "d", "a", "t", "a", "1">>
      [] line = L_mnt_data10 -> <<"/", "m", "n", "t", "/", "d", "a", "t", "a", "1", "0">>
      [] line = L_data3 -> <<"/", "d", "a", "t", "a", "3">>
      [] line = L_data3_data4 -> <<"/", "d", "a", "t", "a", "3", "/", "d", "a", "t", "a", "4">>
IgnoredPaths ==
    {<<"/">>, <<"/", "d", "e", "v">>, <<"/", "p", "r", "o", "c">>, <<"/", "r", "u", "n">>,
     <<"/", "s", "y", "s">>,
     <<"/", "s", "y", "s", "/", "f", "s", "/", "c", "g", "r", "o", "u", "p">>}
\* the mount points of the table, the ignored paths removed
Mounted == {MountPointOf(host.mounts[i]) : i \in DOMAIN host.mounts} \ IgnoredPaths
MountTableRead == host.mounts_readable /\ \A i \in DOMAIN host.mounts : host.mounts[i] \in MountLines

(* C8: on a mount table that was read, is_unsupported_mount_scheme returns True
   exactly when the table, the ignored paths /, /dev, /proc, /run, /sys and
   /sys/fs/cgroup removed, holds two distinct mount points a and b with b
   beginning with the string a: so for /mnt with /mnt/data1, for /data3 with
   /data3/data4 and for /mnt/data1 with /mnt/data10, and not for a mount point
   listed twice nor for a pair with an ignored path. *)
C8_StringPrefixConflict ==
    (call = "is_unsupported_mount_scheme" /\ MountTableRead) =>
        /\ raised = NoError
        /\ ret = Bool(\E a \in Mounted : \E b \in Mounted : a # b /\ IsPrefix(a, b))
        /\ host.mounts \in {<<L_mnt, L_mnt_data1>>, <<L_data3, L_data3_data4>>,
                            <<L_data3_data4, L_data3>>, <<L_mnt_data1, L_mnt_data10>>}
              => ret = PyTrue
        /\ host.mounts \in {<<L_mnt, L_mnt>>, <<L_mnt_data1, L_mnt_data1>>, <<L_root, L_mnt>>,
                            <<L_sys, L_cgroup>>, <<L_root, L_sys, L_data3>>, <<L_mnt, L_data3>>}
              => ret = PyFalse

\* /mnt/data1 and /mnt/data10, neither inside the other, are reported
C8_Witness ==
    /\ call = "is_unsupported_mount_scheme"
    /\ host.mounts = <<L_mnt_data1, L_mnt_data10>>
    /\ ret = PyTrue
    /\ log = <<LogLine("WARNING: unsupported mount scheme", S_mnt_data1 \o <<" ">> \o S_mnt_data10)>>

MemoryCheckApplies == IsEnable /\ ~IsData /\ OsNotEncrypted

(* C9: called on a configuration that has a volume type or no enable operation,
   validate_memory_os_encryption reads the memory only when the operation is one
   of the three enable operations, the volume type is not Data and the OS status
   is NotEncrypted; then it fails with the "Not enough memory" error exactly when
   the total memory read is below 7,000,000 kB (7,000,000 itself passes);
   otherwise it returns without reading the memory and without raising. *)
C9_MemoryGate ==
    (call = "validate_memory_os_encryption" /\ ~(IsEnable /\ VolumeType = None)) =>
        IF MemoryCheckApplies
        THEN /\ probes = <<ReadMemInfo>>
             /\ host.meminfo = <<"6", "9", "9", "9", "9", "9", "9", "\n">>
                   => raised = Exception(NOT_ENOUGH_MEMORY)
             /\ host.meminfo \in {<<"7", "0", "0", "0", "0", "0", "0", "\n">>,
                                  <<"8", "0", "0", "0", "0", "0", "0", "\n">>}
                   => raised = NoError
             /\ raised = Exception(NOT_ENOUGH_MEMORY)
                   => int(host.meminfo).ok /\ int(host.meminfo).n < 7000000
        ELSE raised = NoError /\ probes = <<>>

\* a machine with exactly 7,000,000 kB passes the check for an OS volume
C9_Witness ==
    /\ call = "validate_memory_os_encryption"
    /\ MemoryCheckApplies
    /\ VolumeType = <<"O", "S">>
    /\ host.meminfo = <<"7", "0", "0", "0", "0", "0", "0", "\n">>
    /\ probes = <<ReadMemInfo>>
    /\ raised = NoError

RequiredVolumes ==
    {LV_tmplv, LV_usrlv, LV_optlv, LV_homelv, LV_varlv, LV_rootlv}
MissingVolumes == RequiredVolumes \ host.lsblk_names
VolumeProbes == {p \in Range(probes) : p.probe = "lsblk -o NAME"}
LoggedMissing == {l.arg : l \in {m \in Range(log) : m.msg = "LVM OS scheme is missing LV"}}
BothSpecified == ~Falsy(Operation) /\ ~Falsy(VolumeType)

\* what C10 says of a call to which the check applies, or not
LvmClaim(applies) ==
    IF ~applies THEN raised = NoError /\ probes = <<>>
    ELSE IF host.root_on_lvm
    THEN /\ {p.arg : p \in VolumeProbes} = RequiredVolumes
         /\ raised = (IF MissingVolumes # {} THEN Exception(LVM_INCOMPLETE) ELSE NoError)
         /\ LoggedMissing = MissingVolumes
    ELSE raised = NoError /\ VolumeProbes = {}

(* C10 (as claimed): validate_lvm_os applies when an operation and a volume type
   are both specified and the volume type is not Data, and is a no-op otherwise;
   where it applies and the root is on LVM it probes the six required volumes
   and fails exactly when one is absent, logging each missing volume; where the
   root is not on LVM it neither fails nor probes a volume. *)
C10_AppliesWhenBothSpecified ==
    call = "validate_lvm_os" => LvmClaim(BothSpecified /\ ~IsData)

(* C10 (amended): the same, validate_lvm_os being a no-op also when the operation
   is QueryEncryptionStatus in any case of the letters. *)
C10_AppliesUnlessQuery ==
    call = "validate_lvm_os" =>
        LvmClaim(BothSpecified /\ ~IsData /\ ~SameIgnoringCase(Operation, QueryEncryptionStatus))

\* root on LVM, only rootvg-varlv absent: the failure names exactly rootvg-varlv
C10_Witness ==
    /\ call = "validate_lvm_os"
    /\ IsEnable
    /\ host.root_on_lvm
    /\ MissingVolumes = {LV_varlv}
    /\ raised = Exception(LVM_INCOMPLETE)
    /\ log = <<LogLine("LVM OS scheme is missing LV", LV_varlv)>>

=============================================================================
